---- MODULE Spec2Model ----
(***************************************************************************)
(* Weight layout translation of the LLaMA HF adapter                       *)
(* (tests/models/hf/test_llama_hf.py, TestLlamaHF._oss_hf_model) and the   *)
(* configuration conversion LLaMAHFConfig.from_fms_config                  *)
(* (fms/models/hf/llama/configuration_llama_hf.py).                        *)
(*                                                                         *)
(* A tensor is modelled by the sequence of its rows (dimension 0); a row   *)
(* is an opaque natural number, because every operation of the translator  *)
(* moves whole rows.  Tensors live in a store indexed by address, so that  *)
(* copy_ (write into the destination's storage) and attribute assignment   *)
(* (rebinding the destination to the source's storage) are different.      *)
(***************************************************************************)
EXTENDS Integers, Sequences, FiniteSets, TLC

\* ---------------------------------------------------------------- bounds
MaxRows == 10
MaxHeads == 3
MaxLayers == 2
VocabSize == 3
MaxApply == 2

VARIABLES
  \* translation (_oss_hf_model)
  pc,            \* position in _oss_hf_model
  i,             \* the loop counter of line 60 / 113
  err,           \* the exception that ended the translation, or "none"
  store,         \* address -> tensor (sequence of rows)
  ref,           \* target slot <<layer, name>> -> address its attribute is bound to
  visited,       \* source layer indices read at line 62, in order
  nheads,        \* hf_config.nheads
  hidden_size,   \* hf_config.hidden_size
  nlayers,       \* hf_config.nlayers (number of layers of the target)
  nsrc,          \* len(hf_model.decoder.model.layers)
  qRows,         \* rows of every source query weight
  kRows,         \* rows of every source key / value weight
  pat,           \* which family of source values is used
  \* the Q/K adjustment on its own
  ppc, w, pheads, prows, ppat, applied,
  \* LLaMAHFConfig.from_fms_config
  cpc, fmsConfig, hfKwargs, hfConfig

tvars == <<pc, i, err, store, ref, visited, nheads, hidden_size, nlayers, nsrc, qRows, kRows, pat>>
pvars == <<ppc, w, pheads, prows, ppat, applied>>
cvars == <<cpc, fmsConfig, hfKwargs, hfConfig>>
vars == <<tvars, pvars, cvars>>

\* ------------------------------------------------------------ the tensors
\* per-layer tensors, by the name the target (LlamaForCausalLM) gives them
LayerNames == <<"q_proj", "k_proj", "v_proj", "o_proj", "inv_freqs",
                "gate_proj", "up_proj", "down_proj",
                "input_layernorm", "post_attention_layernorm">>
ModelNames == <<"embed_tokens", "norm", "lm_head", "rot_emb">>

Range(s) == {s[x] : x \in DOMAIN s}

IndexOf(s, e) == CHOOSE x \in DOMAIN s : s[x] = e

\* addresses of the source model's tensors: layer 0 holds the model-level ones
FmsAddrs(n) ==
  {<<"fms", l, k>> : l \in 1..n, k \in Range(LayerNames) \ {"inv_freqs"}}
    \cup {<<"fms", 0, k>> : k \in Range(ModelNames)}

\* slots of the target model
OssSlots(n) ==
  {<<l, k>> : l \in 1..n, k \in Range(LayerNames)}
    \cup {<<0, k>> : k \in Range(ModelNames) \ {"rot_emb"}}

\* rows of a source tensor
FmsRows(k, h, q, kv) ==
  CASE k = "q_proj" -> q
    [] k \in {"k_proj", "v_proj"} -> kv
    [] k \in {"embed_tokens", "lm_head"} -> VocabSize
    [] k = "rot_emb" -> h \div 2
    [] OTHER -> h

\* rows of a freshly constructed target tensor
OssRows(k, h) ==
  CASE k \in {"embed_tokens", "lm_head"} -> VocabSize
    [] k = "inv_freqs" -> h \div 2
    [] OTHER -> h

Tag(l, k) ==
  IF l = 0 THEN IndexOf(ModelNames, k) ELSE 20 * l + IndexOf(LayerNames, k)

\* a source tensor: pattern 0 has pairwise distinct rows, pattern 1 repeats rows
Gen(tag, n, p) ==
  [r \in 1..n |-> 100 * tag + (IF p = 0 THEN r ELSE r % 2)]

FmsVal(a, h, q, kv, p) == Gen(Tag(a[2], a[3]), FmsRows(a[3], h, q, kv), p)

\* a target tensor as LlamaForCausalLM initialises it
OssInit(k, h) == [r \in 1..OssRows(k, h) |-> 0]

EmptyFun == [x \in {} |-> 0]
\* ------------------------------------------------------- tensor operations
\* Tensor.copy_(src): writes src's rows into dst's own storage; shapes must
\* agree (torch raises RuntimeError otherwise; every tensor here has at least
\* two rows, so broadcasting a one-row source never applies)
CopyInto(st, dst, src) ==
  IF Len(st[dst]) = Len(st[src])
    THEN [ok |-> TRUE, st |-> [st EXCEPT ![dst] = st[src]]]
    ELSE [ok |-> FALSE, st |-> st]

\* a run of copy_ calls in program order, stopping at the first that raises
RECURSIVE CopyAll(_, _)
CopyAll(st, pairs) ==
  IF pairs = << >> THEN [ok |-> TRUE, st |-> st]
  ELSE LET r == CopyInto(st, pairs[1][1], pairs[1][2])
       IN IF r.ok THEN CopyAll(r.st, Tail(pairs)) ELSE r

\* q.view(nheads, -1, 2, q.size(1)) is defined when the rows split evenly
ViewValid(n, nh) == n % (2 * nh) = 0

\* variant of the view: both rows of a pair read from the pair's first row
ViewQKFirstOfPair(q, nh) ==
  LET half == Len(q) \div (2 * nh)
  IN [h \in 0..(nh - 1) |-> [p \in 0..(half - 1) |-> [j \in 0..1 |->
        q[(h * half + p) * 2 + 1]]]]

\* q.view(nheads, -1, 2, q.size(1)): index [h][p][j] is row (h*half + p)*2 + j
ViewQK(q, nh) ==
  LET half == Len(q) \div (2 * nh)
  IN [h \in 0..(nh - 1) |-> [p \in 0..(half - 1) |-> [j \in 0..1 |->
        q[(h * half + p) * 2 + j + 1]]]]

\* variant: the transpose left out
Transpose12Missing(t) == t

\* .transpose(1, 2): swaps the two middle axes
Transpose12(t) ==
  [h \in DOMAIN t |->
     [a \in DOMAIN t[h][CHOOSE p \in DOMAIN t[h] : TRUE] |->
        [b \in DOMAIN t[h] |-> t[h][b][a]]]]

\* .reshape(*q.size()): rows of the result in row-major order of [h][a][b]
Reshape(t, n) ==
  LET d0 == Cardinality(DOMAIN t)
      d1 == Cardinality(DOMAIN t[0])
      d2 == n \div (d0 * d1)
  IN [r \in 1..n |->
        t[(r - 1) \div (d1 * d2)][((r - 1) % (d1 * d2)) \div d2][(r - 1) % d2]]

\* variant: an invalid view is swallowed and the raw copy kept
AdjustQKUnchecked(q, nh) ==
  IF ViewValid(Len(q), nh)
    THEN [ok |-> TRUE, val |-> Reshape(Transpose12(ViewQK(q, nh)), Len(q))]
    ELSE [ok |-> TRUE, val |-> q]

\* variant: the adjustment applied to its own result
AdjustQKTwice(q, nh) ==
  IF ViewValid(Len(q), nh)
    THEN [ok |-> TRUE,
          val |-> Reshape(Transpose12(ViewQK(
                    Reshape(Transpose12(ViewQK(q, nh)), Len(q)), nh)), Len(q))]
    ELSE [ok |-> FALSE, val |-> q]

\* the "adjust q, k" expression; ok is FALSE when view raises
AdjustQK(q, nh) ==
  IF ViewValid(Len(q), nh)
    THEN [ok |-> TRUE, val |-> Reshape(Transpose12(ViewQK(q, nh)), Len(q))]
    ELSE [ok |-> FALSE, val |-> q]

\* variant: the source layer one before the target's (the first for the first)
FmsLayerLagging(n) == IF n = 0 THEN 1 ELSE n

\* hf_model.decoder.model.layers[i] (store layers are numbered from 1)
FmsLayer(n) == n + 1

\* ------------------------------------------------------------ translation
Rows == 2..MaxRows

TInit ==
  /\ pc = "construct" /\ i = 0 /\ err = "none"
  /\ nheads \in 1..MaxHeads
  /\ hidden_size \in Rows
  /\ nlayers \in 1..MaxLayers
  /\ nsrc \in 1..MaxLayers
  /\ qRows \in Rows
  /\ kRows \in Rows
  /\ pat \in 0..1
  /\ store = [a \in FmsAddrs(nsrc) |-> FmsVal(a, hidden_size, qRows, kRows, pat)]
  /\ ref = EmptyFun
  /\ visited = << >>

TParams == <<nheads, hidden_size, nlayers, nsrc, qRows, kRows, pat>>

\* lines 39-55: LlamaForCausalLM(LlamaConfig(...)) allocates the target
Construct ==
  /\ pc = "construct"
  /\ ref' = [s \in OssSlots(nlayers) |-> <<"oss", s[1], s[2]>>]
  /\ store' = [a \in DOMAIN store \cup {<<"oss", s[1], s[2]>> : s \in OssSlots(nlayers)} |->
                 IF a \in DOMAIN store THEN store[a] ELSE OssInit(a[3], hidden_size)]
  /\ pc' = "embed"
  /\ UNCHANGED <<i, err, visited, TParams>>

\* lines 59-60
CopyEmbedding ==
  /\ pc = "embed"
  /\ LET r == CopyInto(store, ref[<<0, "embed_tokens">>], <<"fms", 0, "embed_tokens">>)
     IN /\ store' = r.st
        /\ pc' = IF r.ok THEN "loop" ELSE "failed"
        /\ err' = IF r.ok THEN "none" ELSE "ShapeMismatch"
  /\ i' = 0
  /\ UNCHANGED <<ref, visited, TParams>>

\* variant: the value projection is not copied
LayerPairsNoV(t, l) ==
  << <<ref[<<t, "q_proj">>], <<"fms", l, "q_proj">>>>,
     <<ref[<<t, "k_proj">>], <<"fms", l, "k_proj">>>>,
     <<ref[<<t, "o_proj">>], <<"fms", l, "o_proj">>>>,
     <<ref[<<t, "o_proj">>], <<"fms", l, "o_proj">>>>,
     <<ref[<<t, "gate_proj">>], <<"fms", l, "gate_proj">>>>,
     <<ref[<<t, "up_proj">>], <<"fms", l, "up_proj">>>>,
     <<ref[<<t, "down_proj">>], <<"fms", l, "down_proj">>>>,
     <<ref[<<t, "input_layernorm">>], <<"fms", l, "input_layernorm">>>>,
     <<ref[<<t, "post_attention_layernorm">>], <<"fms", l, "post_attention_layernorm">>>> >>

\* the copy_ calls of lines 65-94 for target layer t and source layer l
LayerPairs(t, l) ==
  << <<ref[<<t, "q_proj">>], <<"fms", l, "q_proj">>>>,
     <<ref[<<t, "k_proj">>], <<"fms", l, "k_proj">>>>,
     <<ref[<<t, "v_proj">>], <<"fms", l, "v_proj">>>>,
     <<ref[<<t, "o_proj">>], <<"fms", l, "o_proj">>>>,
     <<ref[<<t, "gate_proj">>], <<"fms", l, "gate_proj">>>>,
     <<ref[<<t, "up_proj">>], <<"fms", l, "up_proj">>>>,
     <<ref[<<t, "down_proj">>], <<"fms", l, "down_proj">>>>,
     <<ref[<<t, "input_layernorm">>], <<"fms", l, "input_layernorm">>>>,
     <<ref[<<t, "post_attention_layernorm">>], <<"fms", l, "post_attention_layernorm">>>> >>

\* lines 61-94: next target layer, source layer i, the plain copies.
\* layers[i] raises IndexError when the source has no layer i.  The
\* assignment of lines 75-77 rebinds inv_freqs and happens only when the four
\* attention copies before it succeeded.
CopyLayer ==
  /\ pc = "loop" /\ i < nlayers
  /\ IF FmsLayer(i) > nsrc
       THEN /\ pc' = "failed" /\ err' = "LayerCountMismatch"
            /\ UNCHANGED <<store, ref, visited>>
       ELSE LET attn == CopyAll(store, SubSeq(LayerPairs(i + 1, FmsLayer(i)), 1, 4))
                r == CopyAll(store, LayerPairs(i + 1, FmsLayer(i)))
            IN /\ store' = r.st
               /\ ref' = IF attn.ok
                           THEN [ref EXCEPT ![<<i + 1, "inv_freqs">>] = <<"fms", 0, "rot_emb">>]
                           ELSE ref
               /\ pc' = IF r.ok THEN "adjust_q" ELSE "failed"
               /\ err' = IF r.ok THEN "none" ELSE "ShapeMismatch"
               /\ visited' = Append(visited, i)
  /\ UNCHANGED <<i, TParams>>

\* lines 97-103
AdjustQ ==
  /\ pc = "adjust_q"
  /\ LET a == ref[<<i + 1, "q_proj">>]
         r == AdjustQK(store[a], nheads)
     IN /\ store' = [store EXCEPT ![a] = r.val]
        /\ pc' = IF r.ok THEN "adjust_k" ELSE "failed"
        /\ err' = IF r.ok THEN "none" ELSE "ShapeMismatch"
  /\ UNCHANGED <<i, ref, visited, TParams>>

\* lines 105-113
AdjustK ==
  /\ pc = "adjust_k"
  /\ LET a == ref[<<i + 1, "k_proj">>]
         r == AdjustQK(store[a], nheads)
     IN /\ store' = [store EXCEPT ![a] = r.val]
        /\ pc' = IF r.ok THEN "loop" ELSE "failed"
        /\ err' = IF r.ok THEN "none" ELSE "ShapeMismatch"
        /\ i' = IF r.ok THEN i + 1 ELSE i
  /\ UNCHANGED <<ref, visited, TParams>>

\* lines 114-117: the loop over the target's layers is exhausted
Finish ==
  /\ pc = "loop" /\ i = nlayers
  /\ ref' = [ref EXCEPT ![<<0, "norm">>] = <<"fms", 0, "norm">>,
                        ![<<0, "lm_head">>] = <<"fms", 0, "lm_head">>]
  /\ pc' = "done"
  /\ UNCHANGED <<i, err, store, visited, TParams>>

\* the caller later writes in place to a tensor of the returned model
WriteTarget ==
  /\ pc = "done"
  /\ \E s \in DOMAIN ref :
       store' = [store EXCEPT ![ref[s]] = [r \in DOMAIN store[ref[s]] |-> 1]]
  /\ pc' = "written"
  /\ UNCHANGED <<i, err, ref, visited, TParams>>

TIdle ==
  /\ pc = "off" /\ i = 0 /\ err = "none" /\ store = EmptyFun /\ ref = EmptyFun
  /\ visited = << >> /\ nheads = 0 /\ hidden_size = 0 /\ nlayers = 0 /\ nsrc = 0
  /\ qRows = 0 /\ kRows = 0 /\ pat = 0
PIdle == ppc = "off" /\ w = << >> /\ pheads = 0 /\ prows = 0 /\ ppat = 0 /\ applied = 0
CIdle == cpc = "off" /\ fmsConfig = EmptyFun /\ hfKwargs = EmptyFun /\ hfConfig = EmptyFun

Init == TInit /\ PIdle /\ CIdle

Next ==
  \/ Construct /\ UNCHANGED <<pvars, cvars>>
  \/ CopyEmbedding /\ UNCHANGED <<pvars, cvars>>
  \/ CopyLayer /\ UNCHANGED <<pvars, cvars>>
  \/ AdjustQ /\ UNCHANGED <<pvars, cvars>>
  \/ AdjustK /\ UNCHANGED <<pvars, cvars>>
  \/ Finish /\ UNCHANGED <<pvars, cvars>>
  \/ WriteTarget /\ UNCHANGED <<pvars, cvars>>

Spec == Init /\ [][Next]_vars

\* ------------------------------------- the Q/K adjustment applied repeatedly
\* the weight the adjustment starts from
W0 == Gen(0, prows, ppat)

PInit ==
  /\ ppc = "ready" /\ applied = 0
  /\ pheads \in 1..MaxHeads
  /\ prows \in Rows
  /\ ppat \in 0..1
  /\ w = W0

\* lines 97-103 (105-111) applied to the weight once more
Permute ==
  /\ ppc = "ready" /\ applied < MaxApply
  /\ LET r == AdjustQK(w, pheads)
     IN /\ w' = r.val
        /\ ppc' = IF r.ok THEN "ready" ELSE "failed"
        /\ applied' = IF r.ok THEN applied + 1 ELSE applied
  /\ UNCHANGED <<pheads, prows, ppat>>

InitPerm == PInit /\ TIdle /\ CIdle
NextPerm == Permute /\ UNCHANGED <<tvars, cvars>>
SpecPerm == InitPerm /\ [][NextPerm]_vars

\* ------------------------------------------ LLaMAHFConfig.from_fms_config
\* the configurations of the source model (fms.models.llama.LLaMAConfig)
FmsConfigs ==
  {[k \in {"src_vocab_size", "emb_dim", "norm_eps", "nheads", "kvheads", "nlayers",
           "pad_id", "hidden_grow_factor", "multiple_of", "activation_fn",
           "p_dropout", "max_expected_seq_len", "ntk_scaling"} |->
      CASE k = "src_vocab_size" -> VocabSize
        [] k = "emb_dim" -> e
        [] k = "norm_eps" -> "1e-5"
        [] k = "nheads" -> nh
        [] k = "kvheads" -> kv
        [] k = "nlayers" -> nl
        [] k = "pad_id" -> pad
        [] k = "hidden_grow_factor" -> "8/3"
        [] k = "multiple_of" -> 256
        [] k = "activation_fn" -> "swish"
        [] k = "p_dropout" -> 0
        [] k = "max_expected_seq_len" -> 2048
        [] k = "ntk_scaling" -> ntk] :
    e \in Rows, nh \in 1..MaxHeads, kv \in 0..MaxHeads, nl \in 1..MaxLayers,
    pad \in {-1, 0}, ntk \in BOOLEAN}

\* config.as_dict(): a new dict of the fields
AsDict(c) == [k \in DOMAIN c |-> c[k]]

\* config_dict["pad_token_id"] = config_dict.pop("pad_id")
RenamePad(d) ==
  [k \in (DOMAIN d \ {"pad_id"}) \cup {"pad_token_id"} |->
     IF k = "pad_token_id" THEN d["pad_id"] ELSE d[k]]

\* the defaults of the named parameters of __init__
InitDefaults ==
  [src_vocab_size |-> 32000, emb_dim |-> 4096, norm_eps |-> "1e-6", nheads |-> 32,
   kvheads |-> 0, nlayers |-> 32, pad_token_id |-> -1, hidden_grow_factor |-> "8/3",
   multiple_of |-> 256, activation_fn |-> "swish", p_dropout |-> 0,
   max_expected_seq_len |-> 2048, use_cache |-> TRUE, eos_token_id |-> 2,
   bos_token_id |-> 1, is_decoder |-> TRUE]

\* __init__(**args): the named parameters become attributes (directly or
\* through super().__init__); what lands in **kwargs is not stored
HFInit(args) ==
  [k \in DOMAIN InitDefaults \cup {"tie_word_embeddings"} |->
     IF k = "tie_word_embeddings" THEN FALSE
     ELSE IF k \in DOMAIN args THEN args[k] ELSE InitDefaults[k]]

\* PretrainedConfig.from_dict(config_dict, **kwargs): cls(**config_dict), then
\* each kwarg naming an attribute of the config overrides it
FromDict(d, kwargs) ==
  LET c == HFInit(d)
  IN [k \in DOMAIN c |-> IF k \in DOMAIN kwargs THEN kwargs[k] ELSE c[k]]

CInit ==
  /\ cpc = "start"
  /\ fmsConfig \in FmsConfigs
  /\ hfKwargs \in {EmptyFun, [k \in {"eos_token_id"} |-> 3]}
  /\ hfConfig = EmptyFun

FromFmsConfig ==
  /\ cpc = "start"
  /\ hfConfig' = FromDict(RenamePad(AsDict(fmsConfig)), hfKwargs)
  /\ cpc' = "converted"
  /\ UNCHANGED <<fmsConfig, hfKwargs>>

InitConfig == CInit /\ TIdle /\ PIdle
NextConfig == FromFmsConfig /\ UNCHANGED <<tvars, pvars>>
SpecConfig == InitConfig /\ [][NextConfig]_vars

\* ================================================================ properties
\* the source tensor at <<"fms", l, k>> as it was before the translation
Src(l, k) == FmsVal(<<"fms", l, k>>, hidden_size, qRows, kRows, pat)

\* the tensor the target's attribute <<l, k>> is bound to
Tgt(l, k) == store[ref[<<l, k>>]]

\* t is s with each block of hd rows rearranged from adjacent pairs to halves
IsHalved(t, s, heads) ==
  /\ Len(t) = Len(s)
  /\ LET hd == Len(s) \div heads
         half == hd \div 2
     IN \A h \in 0..(heads - 1), p \in 0..(half - 1), j \in 0..1 :
          t[h * hd + j * half + p + 1] = s[h * hd + 2 * p + j + 1]

\* the layer a row value of a source tensor comes from
LayerOf(v) == (v \div 100) \div 20

Occurrences(s, v) == Cardinality({r \in DOMAIN s : s[r] = v})

\* C1: for every nheads >= 1 and even head_dim >= 2 the adjustment keeps the
\* shape, keeps every row value as often as it occurred, and (read off a
\* weight whose row r holds r) moves rows by a bijection of the row indices
\* that maps each head's block of head_dim rows onto itself.
C1_PermutationBijective ==
  (ppc = "ready" /\ applied >= 1) =>
    /\ Len(w) = prows
    /\ \A v \in Range(W0) \cup Range(w) : Occurrences(w, v) = Occurrences(W0, v)
    /\ ppat = 0 =>
         /\ \A r \in 1..prows :
              /\ w[r] \in 1..prows
              /\ (w[r] - 1) \div (prows \div pheads) = (r - 1) \div (prows \div pheads)
         /\ \A r1, r2 \in 1..prows : w[r1] = w[r2] => r1 = r2
         /\ \A x \in 1..prows : \E r \in 1..prows : w[r] = x

C1_Witness ==
  ppc = "ready" /\ applied = 1 /\ ppat = 0 /\ pheads = 2 /\ prows = 8 /\ w # W0

\* C2 as stated: applying the adjustment twice reproduces the original weight
\* for every even head_dim.
C2_RoundTripAnyHeadDim ==
  (ppc = "ready" /\ applied = 2) => w = W0

\* C2 amended: applying the adjustment twice reproduces the original weight
\* when head_dim is 2 or 4; for an even head_dim of 6 or more a weight with
\* pairwise distinct rows is not reproduced.
C2_RoundTripSmallHeadDim ==
  (ppc = "ready" /\ applied = 2) =>
    /\ prows \div pheads <= 4 => w = W0
    /\ (prows \div pheads >= 6 /\ ppat = 0) => w # W0

C2_Witness ==
  ppc = "ready" /\ applied = 2 /\ ppat = 0 /\ pheads = 2 /\ prows = 8 /\ w = W0

\* C3: in every layer of a finished translation target Q row
\* h*head_dim + j*(head_dim/2) + p is source Q row h*head_dim + 2*p + j, and
\* the same for K; the adjustment is applied once: before it the target holds
\* the raw copy, after it the rearranged rows.
C3_QKInterleavedHalves ==
  /\ pc = "done" =>
       \A l \in 1..nlayers :
         /\ IsHalved(Tgt(l, "q_proj"), Src(l, "q_proj"), nheads)
         /\ IsHalved(Tgt(l, "k_proj"), Src(l, "k_proj"), nheads)
  /\ pc = "adjust_q" =>
       /\ Tgt(i + 1, "q_proj") = Src(i + 1, "q_proj")
       /\ Tgt(i + 1, "k_proj") = Src(i + 1, "k_proj")
  /\ pc = "adjust_k" =>
       /\ IsHalved(Tgt(i + 1, "q_proj"), Src(i + 1, "q_proj"), nheads)
       /\ Tgt(i + 1, "k_proj") = Src(i + 1, "k_proj")

C3_Witness ==
  /\ pc = "done" /\ nlayers = 2 /\ nheads = 2 /\ qRows = 8 /\ pat = 0
  /\ Tgt(2, "q_proj") # Src(2, "q_proj")

\* C4: after translation every target tensor other than Q and K equals the
\* corresponding source tensor: per layer V, O, gate, up, down, both norms
\* and the rotary frequencies; for the model embedding, final norm and head.
C4_NonQKIdentity ==
  pc = "done" =>
    /\ \A l \in 1..nlayers :
         /\ \A k \in Range(LayerNames) \ {"q_proj", "k_proj", "inv_freqs"} :
              Tgt(l, k) = Src(l, k)
         /\ Tgt(l, "inv_freqs") = Src(0, "rot_emb")
    /\ \A k \in {"embed_tokens", "norm", "lm_head"} : Tgt(0, k) = Src(0, k)

C4_Witness ==
  pc = "done" /\ nlayers = 2 /\ nsrc = 2 /\ Tgt(2, "v_proj") = Src(2, "v_proj")

C6_LayerCountMismatch ==
  nsrc # nlayers => pc \notin {"done", "written"}

\* C8: no source tensor ever changes, neither during the translation nor by
\* a later write to a tensor of the target.
C8_SourceUntouched ==
  pc # "off" => \A a \in FmsAddrs(nsrc) : store[a] = Src(a[2], a[3])

\* C9: with equally many layers N on both sides, at the end the loop counter
\* is N, the layers were read once each in increasing order, and every weight
\* of target layer l holds only row values of source layer l.
C9_LayerOrder ==
  (pc = "done" /\ nsrc = nlayers) =>
    /\ i = nlayers
    /\ visited = [x \in 1..nlayers |-> x - 1]
    /\ \A l \in 1..nlayers :
         \A k \in Range(LayerNames) \ {"inv_freqs"} :
           \A r \in DOMAIN Tgt(l, k) : LayerOf(Tgt(l, k)[r]) = l

C9_Witness ==
  pc = "done" /\ nsrc = 2 /\ nlayers = 2 /\ i = 2 /\ visited = <<0, 1>>

\* C10: a K weight of kvheads*head_dim rows, kvheads different from nheads
\* and dividing it, is rearranged within each of its own kvheads blocks of
\* head_dim rows once layer 1 has been handled.
C10_KGroupedByKvHeads ==
  LET hd == qRows \div nheads
      kv == kRows \div hd
  IN (/\ qRows = hidden_size /\ ViewValid(qRows, nheads)
      /\ kRows % hd = 0 /\ kv # nheads /\ nheads % kv = 0
      /\ (pc \in {"failed", "done", "written"} \/ i >= 1)) =>
       IsHalved(Tgt(1, "k_proj"), Src(1, "k_proj"), kv)

\* C7: the converted configuration holds the source's pad_id as
\* pad_token_id, has no pad_id, and holds every other source field under the
\* same name with the same value.
C7_FieldRenameOnly ==
  cpc = "converted" =>
    /\ "pad_token_id" \in DOMAIN hfConfig
    /\ hfConfig["pad_token_id"] = fmsConfig["pad_id"]
    /\ "pad_id" \notin DOMAIN hfConfig
    /\ \A k \in DOMAIN fmsConfig \ {"pad_id"} :
         k \in DOMAIN hfConfig /\ hfConfig[k] = fmsConfig[k]
====
